---- MODULE Spec2Model ----
(***************************************************************************)
(* Richardson-Lucy deconvolution, Signal/richardson_lucy.ipynb.            *)
(*                                                                         *)
(*   def convolve(image, kernel):                                          *)
(*       return convolve_fft(image, kernel, boundary='wrap', crop=False,   *)
(*                           nan_treatment='fill', normalize_kernel=False) *)
(*                                                                         *)
(*   def RL_Deconvolve(image, psf, n_iter=30):                             *)
(*       x_hat = 0.5 * np.ones(image.shape)                                *)
(*       psf_rot = np.rot90(psf, 2)                                        *)
(*       for i in range(n_iter):                                           *)
(*           x_hat *= convolve(image / convolve(x_hat, psf), psf_rot)      *)
(*       return x_hat                                                      *)
(*                                                                         *)
(* Numbers are exact: a cell is a reduced fraction <<n, d>> with d > 0, or *)
(* one of the three non-finite values a division by zero produces,         *)
(* <<1, 0>> (+inf), <<-1, 0>> (-inf) and <<0, 0>> (NaN).  Arrays are 2-D:  *)
(* a shape <<h, w>> and a cell for every index pair of (0..h-1) x (0..w-1).*)
(* Arrays live in buffers of a memory, so that an in-place update, a view  *)
(* and an alias are what they are in NumPy.                                *)
(***************************************************************************)
EXTENDS Integers, Sequences, FiniteSets, TLC

VARIABLES mem, n_iter, x_hat, psf_rot, i, pc, result,
          call, updates, rots, prev, blurred, ratio, correction, fed, nb, log

vars == <<mem, n_iter, x_hat, psf_rot, i, pc, result,
          call, updates, rots, prev, blurred, ratio, correction, fed, nb, log>>

(***************************************************************************)
(* Bounds of the model.                                                    *)
(***************************************************************************)
MaxIter == 2          \* iteration counts MinIter..MaxIter
MaxVal == 1           \* cells of an observed image are 0..MaxVal
MaxNum == 30000       \* numerators and denominators stay within MaxNum
MaxDim == 2           \* matrices have 1..MaxDim rows and columns
MaxLen == 3           \* lists have 0..MaxLen elements

MinIter == 0 - 1      \* range(n_iter) accepts a negative count

\* The value of a name that is not bound yet.
None == [none |-> TRUE]
\* The exception NumPy raises when two shapes do not fit.
ValueError == [raised |-> "ValueError"]

(***************************************************************************)
(* Exact arithmetic with the IEEE-754 special values of a float division.  *)
(***************************************************************************)
Abs(a) == IF a < 0 THEN 0 - a ELSE a

Sign(a) == IF a > 0 THEN 1 ELSE IF a < 0 THEN 0 - 1 ELSE 0

Max(a, b) == IF a >= b THEN a ELSE b

\* TLC evaluates an argument each time an operator's body reads it; a
\* value that is read more than once is bound first (CHOOSE over a set
\* that holds only that value), and so computed once.
RECURSIVE GCD(_, _)
GCD(a, b) == IF b = 0 THEN a ELSE CHOOSE g \in {GCD(b, r) : r \in {a % b}} : TRUE

Zero == <<0, 1>>
One == <<1, 1>>
Half == <<1, 2>>
Inf == <<1, 0>>
NaN == <<0, 0>>
\* A finite value whose reduced fraction does not fit within MaxNum.
Huge == <<0, 0 - 1>>

IsFinite(a) == a[2] > 0

\* n/d with d > 0 and g the greatest common divisor of n and d.
Reduced(n, d, g) ==
    IF Abs(n) \div g > MaxNum \/ d \div g > MaxNum THEN Huge ELSE <<n \div g, d \div g>>

Lowest(n, d) == CHOOSE r \in {Reduced(n, d, g) : g \in {GCD(Abs(n), d)}} : TRUE

\* The value n/d as a reduced fraction with a positive denominator.
Norm(n, d) ==
    IF d = 0 THEN <<Sign(n), 0>>
    ELSE CHOOSE r \in {Lowest(nn, dd) : nn \in {Sign(d) * n}, dd \in {Abs(d)}} : TRUE

Add(a, b) ==
    IF a = Huge \/ b = Huge THEN Huge
    ELSE IF a = Zero THEN b
    ELSE IF b = Zero THEN a
    ELSE IF a[2] = 0 /\ b[2] = 0 THEN (IF a = b THEN a ELSE NaN)
    ELSE Norm(a[1] * b[2] + b[1] * a[2], a[2] * b[2])

Mul(a, b) ==
    IF a = Huge \/ b = Huge THEN Huge
    ELSE IF a = One THEN b
    ELSE IF b = One THEN a
    ELSE Norm(a[1] * b[1], a[2] * b[2])

\* 1/b: 1/0 is +inf, 1/inf is 0, 1/NaN is NaN.
Inv(b) ==
    IF b = Huge THEN Huge
    ELSE IF b[2] = 0 THEN (IF b = NaN THEN NaN ELSE Zero)
    ELSE IF b[1] = 0 THEN Inf
    ELSE Norm(b[2], b[1])

\* a / b as NumPy's true division of floats: x/0 is +-inf, 0/0 is NaN, and
\* only a warning is issued.
Div(a, b) == CHOOSE q \in {Mul(n, r) : n \in {a}, r \in {Inv(b)}} : TRUE

(***************************************************************************)
(* Arrays.                                                                 *)
(***************************************************************************)
Idx(shape) == (0 .. shape[1] - 1) \X (0 .. shape[2] - 1)

\* An array of the given shape and cells.  TLC keeps a function constructor
\* unevaluated until the function is compared, and would compute a cell anew
\* at every read: the comparison makes the cells values.
Array(shape, cells) == CHOOSE a \in {[shape |-> shape, cells |-> cells]} : a = a

\* np.ones(shape) scaled by v.
Const(shape, v) == Array(shape, [p \in Idx(shape) |-> v])

RECURSIVE SumCells(_, _)
SumCells(f, S) ==
    IF S = {} THEN Zero
    ELSE LET p == CHOOSE q \in S : TRUE
         IN  CHOOSE s \in {Add(f[p], rest) : rest \in {SumCells(f, S \ {p})}} : TRUE

\* The sum of all cells of an array.
Total(a) == SumCells(a.cells, DOMAIN a.cells)

\* np.rot90(m, 2): both axes reversed.
rot90_2(a) ==
    Array(a.shape,
          [p \in Idx(a.shape) |->
              a.cells[<<a.shape[1] - 1 - p[1], a.shape[2] - 1 - p[2]>>]])

(***************************************************************************)
(* convolve_fft(image, kernel, boundary='wrap', crop=False,                *)
(*              nan_treatment='fill', normalize_kernel=False)              *)
(***************************************************************************)
\* fill_value=np.nan in place of the default.
FillValue_NaN == NaN

FillValue == Zero     \* fill_value is left at its default, 0.0

\* A convolution that leaves non-finite cells in its input.
Fill_Keep(a) == a

\* nan_treatment='fill': non-finite cells become fill_value before the FFT.
Fill(a) ==
    Array(a.shape,
          [p \in Idx(a.shape) |-> IF a.cells[p][2] = 0 THEN FillValue ELSE a.cells[p]])

\* The working shape of a zero-padded (linear) convolution.
NewShape_Padded(s, t) == <<s[1] + t[1] - 1, s[2] + t[2] - 1>>

\* boundary='wrap': no padding, the working shape is the larger extent of
\* the two arrays on each axis.
NewShape(s, t) == <<Max(s[1], t[1]), Max(s[2], t[2])>>

\* An array smaller than the working shape is placed in a zero array, at
\* slice(center - n \div 2, center + (n + 1) \div 2), center = N - (N + 1) \div 2.
Embed(a, new) ==
    IF a.shape = new THEN a      \* the slice is the whole array
    ELSE
    LET r0 == (new[1] - (new[1] + 1) \div 2) - a.shape[1] \div 2
        c0 == (new[2] - (new[2] + 1) \div 2) - a.shape[2] \div 2
    IN  Array(new,
              [p \in Idx(new) |->
                  IF /\ p[1] - r0 \in 0 .. a.shape[1] - 1
                     /\ p[2] - c0 \in 0 .. a.shape[2] - 1
                  THEN a.cells[<<p[1] - r0, p[2] - c0>>]
                  ELSE Zero])

\* A transform of the embedded kernel without the shift.
IfftShift_None(a) == a

\* np.fft.ifftshift: the kernel's centre cell N \div 2 moves to the origin.
IfftShift(a) ==
    Array(a.shape,
          [p \in Idx(a.shape) |->
              a.cells[<<(p[1] + a.shape[1] \div 2) % a.shape[1],
                        (p[2] + a.shape[2] \div 2) % a.shape[2]>>]])

\* The same sum without the wrap: a cell p - q outside the array counts as 0.
RECURSIVE CircSum_NoWrap(_, _, _, _)
CircSum_NoWrap(big, ker, p, n) ==
    IF n = 0 THEN Zero
    ELSE LET q == <<(n - 1) \div big.shape[2], (n - 1) % big.shape[2]>>
             k == <<p[1] - q[1], p[2] - q[2]>>
         IN  CHOOSE s \in {Add(term, rest) :
                              term \in {IF k \in Idx(big.shape)
                                        THEN Mul(big.cells[q], ker.cells[k]) ELSE Zero},
                              rest \in {CircSum_NoWrap(big, ker, p, n - 1)}} : TRUE

\* The sum over the first n cells q (row by row) of big[q] * ker[p - q],
\* indices taken modulo the shape.
RECURSIVE CircSum(_, _, _, _)
CircSum(big, ker, p, n) ==
    IF n = 0 THEN Zero
    ELSE LET q == <<(n - 1) \div big.shape[2], (n - 1) % big.shape[2]>>
             k == <<(p[1] - q[1]) % big.shape[1], (p[2] - q[2]) % big.shape[2]>>
         IN  CHOOSE s \in {Add(term, rest) :
                              term \in {Mul(big.cells[q], ker.cells[k])},
                              rest \in {CircSum(big, ker, p, n - 1)}} : TRUE

\* ifftn(fftn(big) * fftn(ker)).real: the circular (periodic) convolution.
CircConv(big, ker) ==
    Array(big.shape,
          [p \in Idx(big.shape) |-> CircSum(big, ker, p, big.shape[1] * big.shape[2])])

\* normalize_kernel=False: the kernel is used as given.
KernelUsed(kernel) == kernel

\* crop=True: the central part of the working array, of the image's shape.
Cropped_ToImage(out, image) ==
    LET r0 == (out.shape[1] - (out.shape[1] + 1) \div 2) - image.shape[1] \div 2
        c0 == (out.shape[2] - (out.shape[2] + 1) \div 2) - image.shape[2] \div 2
    IN  Array(image.shape,
              [p \in Idx(image.shape) |-> out.cells[<<p[1] + r0, p[2] + c0>>]])

\* crop=False: the whole working array is returned.
Cropped(out, image) == out

\* The kernel as it enters the transform: embedded, then shifted.
Shifted(kernel, new) ==
    CHOOSE ker \in {IfftShift(k) : k \in {Embed(KernelUsed(kernel), new)}} : TRUE

ConvFilled(image, kernel) ==
    CHOOSE out \in {Cropped(CircConv(big, ker), image) :
                       big \in {Embed(image, NewShape(image.shape, kernel.shape))},
                       ker \in {Shifted(kernel, NewShape(image.shape, kernel.shape))}} : TRUE

convolve(image, kernel) ==
    CHOOSE out \in {ConvFilled(im, k) : im \in {Fill(image)}, k \in {Fill(kernel)}} : TRUE

(***************************************************************************)
(* NumPy element-wise operations with broadcasting.                        *)
(***************************************************************************)
BroadcastAxis(a, b) ==
    IF a = b \/ b = 1 THEN a ELSE IF a = 1 THEN b ELSE 0

\* The broadcast shape of two shapes, or ValueError when they do not broadcast.
Broadcast(s, t) ==
    IF BroadcastAxis(s[1], t[1]) = 0 \/ BroadcastAxis(s[2], t[2]) = 0
    THEN ValueError
    ELSE <<BroadcastAxis(s[1], t[1]), BroadcastAxis(s[2], t[2])>>

\* The cell of a that index p of the broadcast shape reads.
BGet(a, p) ==
    a.cells[<<IF a.shape[1] = 1 THEN 0 ELSE p[1], IF a.shape[2] = 1 THEN 0 ELSE p[2]>>]

\* image - blurred: the residual in place of the ratio.
true_divide_Subtract(a, b) ==
    IF Broadcast(a.shape, b.shape) = ValueError THEN ValueError
    ELSE Array(Broadcast(a.shape, b.shape),
               [p \in Idx(Broadcast(a.shape, b.shape)) |->
                   Add(BGet(a, p), Mul(Norm(0 - 1, 1), BGet(b, p)))])

\* image / (blurred + 1): a constant added to the denominator.
true_divide_Eps(a, b) ==
    IF Broadcast(a.shape, b.shape) = ValueError THEN ValueError
    ELSE Array(Broadcast(a.shape, b.shape),
               [p \in Idx(Broadcast(a.shape, b.shape)) |->
                   Div(BGet(a, p), Add(BGet(b, p), One))])

\* image / blurred
true_divide(a, b) ==
    IF Broadcast(a.shape, b.shape) = ValueError THEN ValueError
    ELSE Array(Broadcast(a.shape, b.shape),
               [p \in Idx(Broadcast(a.shape, b.shape)) |-> Div(BGet(a, p), BGet(b, p))])

\* x = x * c: the product is a new array of the broadcast shape.
imul_Rebind(x, c) ==
    IF Broadcast(x.shape, c.shape) = ValueError THEN ValueError
    ELSE Array(Broadcast(x.shape, c.shape),
               [p \in Idx(Broadcast(x.shape, c.shape)) |-> Mul(BGet(x, p), BGet(c, p))])

\* x *= c: the product is written into x, so it must have x's shape.
imul(x, c) ==
    IF Broadcast(x.shape, c.shape) # x.shape THEN ValueError
    ELSE Array(x.shape, [p \in Idx(x.shape) |-> Mul(x.cells[p], BGet(c, p))])

(***************************************************************************)
(* One pass of the loop body, line 111:                                    *)
(*     x_hat *= convolve(image / convolve(x_hat, psf), psf_rot)            *)
(* as the values it computes in order.  A step that cannot be computed     *)
(* because an earlier one raised is None.                                  *)
(***************************************************************************)
Multiplied(x, b, r, c) ==
    [blurred |-> b, ratio |-> r, correction |-> c,
     estimate |-> IF c = None THEN None ELSE imul(x, c)]

Corrected(x, rot, b, r) ==
    CHOOSE body \in {Multiplied(x, b, r, c) :
                        c \in {IF r = ValueError THEN None ELSE convolve(r, rot)}} : TRUE

Divided(x, image, rot, b) ==
    CHOOSE body \in {Corrected(x, rot, b, r) : r \in {true_divide(image, b)}} : TRUE

\* The pass "first" with all cells but <<0, 0>> taken from a second pass, computed
\* after cell <<0, 0>> of the estimate was overwritten.
Interleaved(x, image, psf, rot, first) ==
    IF first.ratio = ValueError \/ first.estimate = ValueError THEN first
    ELSE [blurred |-> first.blurred, ratio |-> first.ratio, correction |-> first.correction,
          estimate |->
              CHOOSE e \in {Array(x.shape,
                                  [p \in Idx(x.shape) |->
                                      IF p = <<0, 0>> THEN first.estimate.cells[p]
                                      ELSE second.estimate.cells[p]]) :
                              second \in {Divided(x1, image, rot, convolve(x1, psf)) :
                                  x1 \in {Array(x.shape,
                                      [p \in Idx(x.shape) |->
                                          IF p = <<0, 0>> THEN first.estimate.cells[p]
                                          ELSE x.cells[p]])}}} : TRUE]

\* A pass that overwrites the estimate cell by cell while the correction is
\* still being computed from it.
Body_Interleaved(x, image, psf, rot) ==
    CHOOSE body \in {Interleaved(x, image, psf, rot, first) :
                        first \in {Divided(x, image, rot, convolve(x, psf))}} : TRUE

\* A pass whose second convolution uses the kernel as given, not rotated.
Body_Unrotated(x, image, psf, rot) ==
    CHOOSE body \in {Divided(x, image, psf, b) : b \in {convolve(x, psf)}} : TRUE

Body(x, image, psf, rot) ==
    CHOOSE body \in {Divided(x, image, rot, b) : b \in {convolve(x, psf)}} : TRUE

Raises(body) == body.ratio = ValueError \/ body.estimate = ValueError

\* An initial estimate of ones.
InitialEstimate_Ones(image) == Const(image.shape, One)

\* An initial estimate that is a copy of the observed image.
InitialEstimate_Image(image) == image

\* x_hat = 0.5 * np.ones(image.shape)
InitialEstimate(image) == Const(image.shape, Half)

\* The value RL_Deconvolve returns after n passes, or ValueError.
RECURSIVE Loop(_, _, _, _, _)
Loop(x, image, psf, rot, n) ==
    IF n <= 0 THEN x
    ELSE CHOOSE out \in {IF Raises(body) THEN ValueError
                         ELSE Loop(body.estimate, image, psf, rot, n - 1) :
                            body \in {Body(x, image, psf, rot)}} : TRUE

RL_Deconvolve(image, psf, n) ==
    CHOOSE out \in {Loop(x, image, psf, rot, n) :
                       x \in {InitialEstimate(image)}, rot \in {rot90_2(psf)}} : TRUE

(***************************************************************************)
(* The calls the model makes.                                              *)
(***************************************************************************)
\* The shapes of the images and of the kernels, rows by columns.
Shapes == {<<1, 1>>, <<1, 2>>, <<1, 3>>, <<2, 1>>, <<2, 2>>}

ArraysOver(vals) ==
    UNION {{Array(s, f) : f \in [Idx(s) -> vals]} : s \in Shapes}

\* Observed images: whole numbers 0..MaxVal.
Images == ArraysOver({<<v, 1>> : v \in 0 .. MaxVal})

KernelPatterns == ArraysOver({Zero, One})

\* A kernel scaled to sum 1.
Normalised(k) ==
    Array(k.shape, [p \in Idx(k.shape) |-> Div(k.cells[p], Total(k))])

\* Kernels: patterns of 0 and 1 (the zero kernel, one-hot kernels, boxes),
\* as they are and normalised to sum 1.
Kernels ==
    KernelPatterns \cup {Normalised(k) : k \in {q \in KernelPatterns : Total(q) # Zero}}

IterCounts == MinIter .. MaxIter

HasHuge(a) == a # ValueError /\ \E p \in DOMAIN a.cells : a.cells[p] = Huge

\* The calls whose exact values stay within MaxNum: the model makes no other.
InRange(image, psf, n) == \A out \in {RL_Deconvolve(image, psf, n)} : ~HasHuge(out)

(***************************************************************************)
(* State.  mem holds the arrays: the caller's image and psf, and the       *)
(* buffer the call allocates for its estimate.  x_hat and result are       *)
(* references to a buffer; psf_rot is the view np.rot90 returns, which     *)
(* shares the buffer of psf.  call records the arguments as they were at   *)
(* the call; updates and rots count the in-place multiplies and the        *)
(* np.rot90 calls made so far; prev is the estimate the last pass of the   *)
(* loop started from, and blurred, ratio and correction are the values it  *)
(* computed.  fed is the array a first call returned, when the caller      *)
(* passes it as the image of a second call.  nb is the state of the        *)
(* Definitions notebook, whose cells do not use RL_Deconvolve.             *)
(***************************************************************************)
Bufs == {"image", "psf", "x_hat"}

\* An estimate that is the caller's image array itself.
NewBuf_Aliased == "image"

\* The buffer 0.5 * np.ones(...) returns: a new array.
NewBuf == "x_hat"

\* The view np.rot90(m, 2) returns: the buffer of m, read with both axes
\* reversed.
Rot90View(v) == [buf |-> v.buf, flipped |-> ~v.flipped]

Ref(b) == [buf |-> b, flipped |-> FALSE]

\* The array a reference denotes.
Deref(m, v) == IF v.flipped THEN rot90_2(m[v.buf]) ELSE m[v.buf]

Init ==
    /\ \E image \in Images, psf \in Kernels, n \in IterCounts :
          /\ InRange(image, psf, n)
          /\ mem = [b \in Bufs |-> IF b = "image" THEN image
                                   ELSE IF b = "psf" THEN psf ELSE None]
          /\ n_iter = n
          /\ call = [image |-> image, psf |-> psf, n_iter |-> n]
    /\ x_hat = None
    /\ psf_rot = None
    /\ i = 0
    /\ pc = "call"
    /\ result = None
    /\ updates = 0
    /\ rots = 0
    /\ prev = None
    /\ blurred = None
    /\ ratio = None
    /\ correction = None
    /\ fed = None
    /\ nb = None
    /\ log = <<>>

\* An entry that keeps the estimate an earlier call left behind, when it has
\* the shape of the image.
Enter_Persistent ==
    /\ pc = "call"
    /\ mem' = [mem EXCEPT ![NewBuf] =
                  IF mem[NewBuf] # None /\ mem[NewBuf].shape = mem["image"].shape
                  THEN mem[NewBuf]
                  ELSE InitialEstimate(mem["image"])]
    /\ x_hat' = Ref(NewBuf)
    /\ psf_rot' = Rot90View(Ref("psf"))
    /\ rots' = rots + 1
    /\ i' = 0
    /\ pc' = "loop"
    /\ UNCHANGED <<n_iter, result, call, updates, prev, blurred, ratio, correction,
                   fed, nb, log>>

\* Lines 106-107: the initial estimate and the rotated kernel.
Enter ==
    /\ pc = "call"
    /\ mem' = [mem EXCEPT ![NewBuf] = InitialEstimate(mem["image"])]
    /\ x_hat' = Ref(NewBuf)
    /\ psf_rot' = Rot90View(Ref("psf"))
    /\ rots' = rots + 1
    /\ i' = 0
    /\ pc' = "loop"
    /\ UNCHANGED <<n_iter, result, call, updates, prev, blurred, ratio, correction,
                   fed, nb, log>>

ThisBody ==
    CHOOSE body \in {Body(x, mem["image"], mem["psf"], rot) :
                        x \in {Deref(mem, x_hat)}, rot \in {Deref(mem, psf_rot)}} : TRUE

\* A pass that rotates the kernel again, inside the loop.
Iterate_Rerotate ==
    /\ pc = "loop"
    /\ i < n_iter
    /\ \E body \in {ThisBody} :
          /\ ~Raises(body)
          /\ mem' = [mem EXCEPT ![x_hat.buf] = body.estimate]
          /\ prev' = Deref(mem, x_hat)
          /\ blurred' = body.blurred
          /\ ratio' = body.ratio
          /\ correction' = body.correction
    /\ psf_rot' = Rot90View(psf_rot)
    /\ rots' = rots + 1
    /\ updates' = updates + 1
    /\ i' = i + 1
    /\ UNCHANGED <<n_iter, x_hat, pc, result, call, fed, nb, log>>

\* A pass of a loop over range(abs(n_iter)).
Iterate_Abs ==
    /\ pc = "loop"
    /\ i < Abs(n_iter)
    /\ \E body \in {ThisBody} :
          /\ ~Raises(body)
          /\ mem' = [mem EXCEPT ![x_hat.buf] = body.estimate]
          /\ prev' = Deref(mem, x_hat)
          /\ blurred' = body.blurred
          /\ ratio' = body.ratio
          /\ correction' = body.correction
    /\ updates' = updates + 1
    /\ i' = i + 1
    /\ UNCHANGED <<n_iter, x_hat, psf_rot, pc, result, call, rots, fed, nb, log>>

\* Lines 109-111: one pass of the loop that completes.
Iterate ==
    /\ pc = "loop"
    /\ i < n_iter
    /\ \E body \in {ThisBody} :
          /\ ~Raises(body)
          /\ mem' = [mem EXCEPT ![x_hat.buf] = body.estimate]
          /\ prev' = Deref(mem, x_hat)
          /\ blurred' = body.blurred
          /\ ratio' = body.ratio
          /\ correction' = body.correction
    /\ updates' = updates + 1
    /\ i' = i + 1
    /\ UNCHANGED <<n_iter, x_hat, psf_rot, pc, result, call, rots, fed, nb, log>>

\* A pass whose exception is caught and dropped: the loop goes on.
Raise_Swallowed ==
    /\ pc = "loop"
    /\ i < n_iter
    /\ \E body \in {ThisBody} :
          /\ Raises(body)
          /\ prev' = Deref(mem, x_hat)
          /\ blurred' = body.blurred
          /\ ratio' = body.ratio
          /\ correction' = body.correction
    /\ i' = i + 1
    /\ UNCHANGED <<mem, n_iter, x_hat, psf_rot, pc, result, call, updates, rots, fed, nb, log>>

\* Lines 109-111: a pass in which the division or the in-place multiply
\* raises; the exception leaves RL_Deconvolve.
Raise ==
    /\ pc = "loop"
    /\ i < n_iter
    /\ \E body \in {ThisBody} :
          /\ Raises(body)
          /\ prev' = Deref(mem, x_hat)
          /\ blurred' = body.blurred
          /\ ratio' = body.ratio
          /\ correction' = body.correction
    /\ result' = ValueError
    /\ pc' = "raised"
    /\ UNCHANGED <<mem, n_iter, x_hat, psf_rot, i, call, updates, rots, fed, nb, log>>

\* A return that does not wait for range(n_iter) to be exhausted.
Return_Early ==
    /\ pc = "loop"
    /\ result' = x_hat
    /\ pc' = "done"
    /\ UNCHANGED <<mem, n_iter, x_hat, psf_rot, i, call, updates, rots,
                   prev, blurred, ratio, correction, fed, nb, log>>

\* Lines 109 and 113: range(n_iter) is exhausted, x_hat is returned.
Return ==
    /\ pc = "loop"
    /\ ~(i < n_iter)
    /\ result' = x_hat
    /\ pc' = "done"
    /\ UNCHANGED <<mem, n_iter, x_hat, psf_rot, i, call, updates, rots,
                   prev, blurred, ratio, correction, fed, nb, log>>

Next == Enter \/ Iterate \/ Raise \/ Return

Spec == Init /\ [][Next]_vars

\* The interpreter runs the call to its end.
FairSpec == Spec /\ WF_vars(Next)

(***************************************************************************)
(* A caller that passes the array a first call returned as the image of a  *)
(* second call, RL_Deconvolve(out, psf, 0).  The second call has its own   *)
(* frame: its image is the array the first call returned, its kernel the   *)
(* caller's kernel as it is now, and nothing else is bound yet.            *)
(***************************************************************************)
FeedBack ==
    /\ pc = "done"
    /\ fed = None
    /\ fed' = Deref(mem, result)
    /\ mem' = [b \in Bufs |-> IF b = "image" THEN Deref(mem, result)
                              ELSE IF b = "psf" THEN mem["psf"] ELSE None]
    /\ n_iter' = 0
    /\ call' = [image |-> Deref(mem, result), psf |-> mem["psf"], n_iter |-> 0]
    /\ x_hat' = None
    /\ psf_rot' = None
    /\ i' = 0
    /\ pc' = "call"
    /\ result' = None
    /\ updates' = 0
    /\ rots' = 0
    /\ prev' = None
    /\ blurred' = None
    /\ ratio' = None
    /\ correction' = None
    /\ UNCHANGED <<nb, log>>

FeedNext == Enter \/ Iterate \/ Raise \/ Return \/ FeedBack

FeedSpec == Init /\ [][FeedNext]_vars

(***************************************************************************)
(* Calls that leave n_iter out.  Line 104:                                 *)
(*     def RL_Deconvolve(image, psf, n_iter=30)                            *)
(***************************************************************************)
\* A default of 20, the count the notebook's example passes.
n_iter_default_20 == 20

n_iter_default == 30

\* The images of these calls: those of a single row or a single column.
DefaultImages == {a \in Images : a.shape[1] = 1 \/ a.shape[2] = 1}

\* n_iter is bound to its default; call records that the caller gave none.
DefaultInit ==
    /\ \E image \in DefaultImages, psf \in Kernels :
          /\ InRange(image, psf, n_iter_default)
          /\ mem = [b \in Bufs |-> IF b = "image" THEN image
                                   ELSE IF b = "psf" THEN psf ELSE None]
          /\ n_iter = n_iter_default
          /\ call = [image |-> image, psf |-> psf, n_iter |-> n_iter_default,
                     given |-> FALSE]
    /\ x_hat = None
    /\ psf_rot = None
    /\ i = 0
    /\ pc = "call"
    /\ result = None
    /\ updates = 0
    /\ rots = 0
    /\ prev = None
    /\ blurred = None
    /\ ratio = None
    /\ correction = None
    /\ fed = None
    /\ nb = None
    /\ log = <<>>

DefaultSpec == DefaultInit /\ [][Next]_vars

(***************************************************************************)
(* The calls on which a call is compared with the call on a shifted or a   *)
(* scaled image: images of one row of three cells and of two rows of two,  *)
(* kernels of even and of odd extent, some of them larger than the image.  *)
(***************************************************************************)
RelatedImages == {a \in Images : a.shape \in {<<1, 3>>, <<2, 2>>}}

RelatedKernels == {k \in Kernels : k.shape \in {<<1, 2>>, <<1, 3>>, <<2, 1>>}}

RelatedInit ==
    /\ \E image \in RelatedImages, psf \in RelatedKernels, n \in IterCounts :
          /\ InRange(image, psf, n)
          /\ mem = [b \in Bufs |-> IF b = "image" THEN image
                                   ELSE IF b = "psf" THEN psf ELSE None]
          /\ n_iter = n
          /\ call = [image |-> image, psf |-> psf, n_iter |-> n]
    /\ x_hat = None
    /\ psf_rot = None
    /\ i = 0
    /\ pc = "call"
    /\ result = None
    /\ updates = 0
    /\ rots = 0
    /\ prev = None
    /\ blurred = None
    /\ ratio = None
    /\ correction = None
    /\ fed = None
    /\ nb = None
    /\ log = <<>>

RelatedSpec == RelatedInit /\ [][Next]_vars

(***************************************************************************)
(* A session: a call, any call of InBetween after it, and the first call   *)
(* once more.  log holds the calls that have ended, each with what it gave *)
(* the caller: the array returned or the exception.  The names x_hat,      *)
(* psf_rot and i are local to a call and unbound when the next one starts; *)
(* the array an earlier call returned stays in memory, in the caller's     *)
(* hands.                                                                  *)
(***************************************************************************)
Outcome == IF pc = "raised" THEN ValueError ELSE Deref(mem, result)

SessionImages == {a \in Images : a.shape = <<1, 2>>}

SessionKernels == {k \in Kernels : k.shape[1] = 1}

\* The calls made in between: with and without passes, ending in a return
\* or in the exception.
InBetween ==
    {c \in [image : {a \in KernelPatterns : a.shape = <<1, 2>>},
            psf : {k \in KernelPatterns : k.shape \in {<<1, 1>>, <<1, 3>>} /\ k = Const(k.shape, One)}
                      \cup {k \in KernelPatterns : k.shape = <<1, 2>> /\ k.cells[<<0, 0>>] = Zero
                                                      /\ k.cells[<<0, 1>>] = One},
            n_iter : {0, MaxIter}] : InRange(c.image, c.psf, c.n_iter)}

SessionInit ==
    /\ Init
    /\ call.image \in SessionImages
    /\ call.psf \in SessionKernels

CallAgain ==
    /\ pc \in {"done", "raised"}
    /\ Len(log) < 2
    /\ log' = Append(log, [call |-> call, out |-> Outcome])
    /\ \E next \in (IF Len(log) = 0 THEN InBetween ELSE {log[1].call}) :
          /\ mem' = [mem EXCEPT !["image"] = next.image, !["psf"] = next.psf]
          /\ n_iter' = next.n_iter
          /\ call' = next
    /\ x_hat' = None
    /\ psf_rot' = None
    /\ i' = 0
    /\ pc' = "call"
    /\ result' = None
    /\ updates' = 0
    /\ rots' = 0
    /\ prev' = None
    /\ blurred' = None
    /\ ratio' = None
    /\ correction' = None
    /\ UNCHANGED <<fed, nb>>

SessionNext == Enter \/ Iterate \/ Raise \/ Return \/ CallAgain

SessionSpec == SessionInit /\ [][SessionNext]_vars

(***************************************************************************)
(* The Definitions notebook.  Two of its code cells:                       *)
(*                                                                         *)
(*   A = set([1, 1, 2, 3, 5])                                              *)
(*   print 'A =', A                                                        *)
(*   print 'card(A) =', len(A)                                             *)
(*                                                                         *)
(*   A = np.array([[1, 2, 1], [-2, -3, 1], [3, 5, 0]])                     *)
(*   print 'rank(A) =', np.linalg.matrix_rank(A)                           *)
(*   print 'rank(A) <= min(m, n):', np.linalg.matrix_rank(A) <= min(m, n)  *)
(*       (m, n being A.shape)                                              *)
(*                                                                         *)
(* A cell is run on the list or matrix written in it, or on another one of *)
(* the bounded sets below.  nb holds the cell, its input and, once the     *)
(* cell has run, what it printed.                                          *)
(***************************************************************************)
Min(a, b) == IF a <= b THEN a ELSE b

\* The list and the matrix written in the cells.
ExampleList == <<1, 1, 2, 3, 5>>

ExampleMatrix == <<<<1, 2, 1>>, <<0 - 2, 0 - 3, 1>>, <<3, 5, 0>>>>

Elements == {1, 2, 3, 5}

Lists == {ExampleList} \cup UNION {[1 .. n -> Elements] : n \in 0 .. MaxLen}

Entries == {0 - 1, 0, 1}

\* A matrix is the sequence of its rows.
Matrices ==
    {ExampleMatrix}
        \cup UNION {[1 .. m -> [1 .. n -> Entries]] : m \in 1 .. MaxDim, n \in 1 .. MaxDim}

\* set(l): the elements of a list.
set(l) == {l[k] : k \in DOMAIN l}

\* len(A) of a set.
len(A) == Cardinality(A)

\* The length of the list the set is built from.
card_OfList(l) == Len(l)

\* card(A) as the cell prints it, for A = set(l).
card(l) == len(set(l))

\* A.shape
A_shape(M) == <<Len(M), Len(M[1])>>

\* Row k of M after the pivot row piv has cleared column c of it (without
\* division: the row is scaled by the pivot).
Cleared(row, piv, c) ==
    [j \in DOMAIN row |-> piv[c] * row[j] - row[c] * piv[j]]

\* The rows but row r, each cleared in column c by row r.
Eliminated(rows, r, c) ==
    [k \in 1 .. Len(rows) - 1 |->
        Cleared(rows[IF k < r THEN k ELSE k + 1], rows[r], c)]

\* The number of pivots that elimination finds in columns c..n of the rows.
RECURSIVE Pivots(_, _, _)
Pivots(rows, c, n) ==
    IF Len(rows) = 0 \/ c > n THEN 0
    ELSE IF \A r \in DOMAIN rows : rows[r][c] = 0 THEN Pivots(rows, c + 1, n)
    ELSE CHOOSE out \in {1 + Pivots(rest, c + 1, n) :
                            rest \in {Eliminated(rows, r, c) :
                                         r \in {CHOOSE q \in DOMAIN rows : rows[q][c] # 0}}} : TRUE

\* The number of rows that are not zero.
matrix_rank_NonZeroRows(M) ==
    Cardinality({r \in DOMAIN M : \E j \in DOMAIN M[r] : M[r][j] # 0})

\* np.linalg.matrix_rank(M): the number of singular values above the
\* tolerance, which for these small whole-number matrices is the rank.
matrix_rank(M) == Pivots(M, 1, Len(M[1]))

\* The notebook before one of the two cells is run.
NbInit ==
    /\ \/ \E l \in Lists : nb = [cell |-> "card", in |-> l, ran |-> FALSE]
       \/ \E M \in Matrices : nb = [cell |-> "rank", in |-> M, ran |-> FALSE]
    /\ mem = None
    /\ n_iter = 0
    /\ call = None
    /\ x_hat = None
    /\ psf_rot = None
    /\ i = 0
    /\ pc = "idle"
    /\ result = None
    /\ updates = 0
    /\ rots = 0
    /\ prev = None
    /\ blurred = None
    /\ ratio = None
    /\ correction = None
    /\ fed = None
    /\ log = <<>>

RLUnchanged ==
    UNCHANGED <<mem, n_iter, x_hat, psf_rot, i, pc, result,
                call, updates, rots, prev, blurred, ratio, correction, fed, log>>

\* The cardinality cell: the set A and what is printed as card(A).
CardCell ==
    /\ nb # None
    /\ nb.cell = "card"
    /\ ~nb.ran
    /\ nb' = [cell |-> "card", in |-> nb.in, ran |-> TRUE,
              A |-> set(nb.in), card |-> card(nb.in)]
    /\ RLUnchanged

\* The rank cell: the two values it prints.
RankCell ==
    /\ nb # None
    /\ nb.cell = "rank"
    /\ ~nb.ran
    /\ nb' = [cell |-> "rank", in |-> nb.in, ran |-> TRUE,
              rank |-> matrix_rank(nb.in),
              holds |-> (matrix_rank(nb.in) <= Min(A_shape(nb.in)[1], A_shape(nb.in)[2]))]
    /\ RLUnchanged

NbNext == CardCell \/ RankCell

NbSpec == NbInit /\ [][NbNext]_vars

(***************************************************************************)
(* Vocabulary of the properties.                                           *)
(***************************************************************************)
\* The arguments of the call, as they were when it was made.
Observed == call.image
Kernel == call.psf

\* The working estimate, once line 106 has run.
Estimate == Deref(mem, x_hat)

\* The array the call returned.
Returned == Deref(mem, result)

Finished == pc \in {"done", "raised"}

Centre(shape) == <<shape[1] \div 2, shape[2] \div 2>>

\* A single 1 at the centre cell, zeros elsewhere.
IsIdentity(k) ==
    \A p \in Idx(k.shape) : k.cells[p] = IF p = Centre(k.shape) THEN One ELSE Zero

OddShape(shape) == shape[1] % 2 = 1 /\ shape[2] % 2 = 1

\* shape s does not exceed shape t on either axis.
FitsIn(s, t) == s[1] <= t[1] /\ s[2] <= t[2]

AllFinite(a) == \A p \in Idx(a.shape) : IsFinite(a.cells[p])

HasZero(a) == \E p \in Idx(a.shape) : a.cells[p] = Zero

IsFlat(a, v) == \A p \in Idx(a.shape) : a.cells[p] = v

(***************************************************************************)
(* C1.  As claimed: for an identity kernel (a single 1 at the centre) and  *)
(* any iteration count >= 1, RL_Deconvolve returns an array equal to the   *)
(* observed image, for every observed image.  Refuted: a kernel with an    *)
(* even extent has its 1 moved off the centre by the 180-degree rotation,  *)
(* and a kernel larger than the image makes the call raise.                *)
(***************************************************************************)
C1_IdentityReturnsObserved ==
    (Finished /\ IsIdentity(Kernel) /\ call.n_iter >= 1)
        => (pc = "done" /\ Returned = Observed)

(***************************************************************************)
(* C1, amended.  For an identity kernel whose extents are odd and do not   *)
(* exceed those of the observed image (in particular [[1]]), and any       *)
(* iteration count >= 1, RL_Deconvolve returns an array equal to the       *)
(* observed image, for every observed image.                               *)
(***************************************************************************)
C1_OddIdentityReturnsObserved ==
    (/\ Finished
     /\ IsIdentity(Kernel)
     /\ OddShape(Kernel.shape)
     /\ FitsIn(Kernel.shape, Observed.shape)
     /\ call.n_iter >= 1)
        => (pc = "done" /\ Returned = Observed)

\* A 1x3 identity kernel, two passes, an image with a zero and a non-zero cell.
C1_Witness ==
    /\ pc = "done"
    /\ call.n_iter >= 2
    /\ IsIdentity(Kernel)
    /\ Kernel.shape = <<1, 3>>
    /\ HasZero(Observed)
    /\ ~IsFlat(Observed, Zero)
    /\ Returned = Observed

(***************************************************************************)
(* C2.  With iterations = 0 RL_Deconvolve returns the initial estimate     *)
(* unchanged: an array of the observed image's shape whose every cell is   *)
(* 0.5, whatever the observed image and the kernel hold.                   *)
(***************************************************************************)
C2_ZeroIterationsReturnsHalf ==
    call.n_iter = 0 =>
        /\ pc # "raised"
        /\ pc = "done" =>
              /\ Returned.shape = Observed.shape
              /\ \A p \in Idx(Observed.shape) : Returned.cells[p] = <<1, 2>>
              /\ updates = 0

\* A zero-iteration call on a 2x2 image with a kernel of another shape.
C2_Witness ==
    /\ pc = "done"
    /\ call.n_iter = 0
    /\ Observed.shape = <<2, 2>>
    /\ Kernel.shape = <<1, 3>>
    /\ ~IsFlat(Observed, Zero)
    /\ IsFlat(Returned, Half)

(***************************************************************************)
(* C3.  When no primitive fails, the loop performs exactly `iterations`    *)
(* estimate updates and then returns: it never stops early, never runs an  *)
(* extra update, and always terminates.                                    *)
(***************************************************************************)
C3_ExactlyNIterUpdates ==
    /\ [](call.n_iter >= 0 => /\ updates <= call.n_iter
                              /\ pc = "done" => updates = call.n_iter)
    /\ <>Finished

\* A call that ran MaxIter passes and returned.
C3_Witness ==
    /\ pc = "done"
    /\ call.n_iter = MaxIter
    /\ updates = MaxIter
    /\ Observed.shape = <<2, 2>>
    /\ ~IsFlat(Returned, Half)

(***************************************************************************)
(* C4.  In each iteration the estimate is replaced, element-wise, by       *)
(* estimate * convolve(observed / convolve(estimate, kernel),              *)
(* kernel_flipped): both convolutions are the same wrap-around             *)
(* convolution, and kernel_flipped is the kernel rotated by 180 degrees.   *)
(* Stated on the pass last completed: prev is the estimate it started      *)
(* from, blurred, ratio and correction the values it computed.             *)
(***************************************************************************)
Updated == pc \in {"loop", "done"} /\ updates >= 1

C4_UpdateFormula ==
    Updated =>
        /\ blurred = convolve(prev, Kernel)
        /\ ratio = true_divide(Observed, blurred)
        /\ correction = convolve(ratio, rot90_2(Kernel))
        /\ Estimate.shape = prev.shape
        /\ \A p \in Idx(prev.shape) :
              Estimate.cells[p] = Mul(prev.cells[p], correction.cells[p])

\* Two passes with a kernel that differs from its rotation, on a 2x2 image
\* that is not flat.
C4_Witness ==
    /\ pc = "done"
    /\ updates = 2
    /\ rot90_2(Kernel) # Kernel
    /\ Observed.shape = <<2, 2>>
    /\ ~IsFlat(Observed, Zero) /\ ~IsFlat(Observed, One)
    /\ Estimate # prev

(***************************************************************************)
(* C5.  Given an observed image of shape (H, W) and a kernel of shape      *)
(* (H, W), the estimate has shape (H, W) at initialisation and after every *)
(* iteration, so the returned array has the observed image's shape for any *)
(* iteration count.                                                        *)
(***************************************************************************)
C5_ShapePreserved ==
    Kernel.shape = Observed.shape =>
        /\ pc # "raised"
        /\ pc \in {"loop", "done"} => Estimate.shape = Observed.shape
        /\ pc = "done" => Returned.shape = Observed.shape

\* A 2x2 image and a 2x2 kernel, MaxIter passes, returned.
C5_Witness ==
    /\ pc = "done"
    /\ updates = MaxIter
    /\ Observed.shape = <<2, 2>>
    /\ Kernel.shape = <<2, 2>>
    /\ Returned.shape = <<2, 2>>
    /\ ~IsFlat(Returned, Half)

(***************************************************************************)
(* C6.  For a symmetric kernel normalised to sum 1 and an observed image   *)
(* that is flat at a constant c, the flat image c is a fixed point of the  *)
(* update: once the estimate equals c, an iteration leaves every cell      *)
(* equal to c.                                                             *)
(***************************************************************************)
Symmetric(k) == rot90_2(k) = k

FlatValue(a) == a.cells[<<0, 0>>]

C6_FlatFixedPoint ==
    (/\ Updated
     /\ IsFlat(Observed, FlatValue(Observed))
     /\ Symmetric(Kernel)
     /\ Total(Kernel) = One
     /\ IsFlat(prev, FlatValue(Observed)))
        => IsFlat(Estimate, FlatValue(Observed))

\* A flat 2x2 image and the 2x2 box average: the second pass starts from
\* the flat image and ends on it.
C6_Witness ==
    /\ pc = "done"
    /\ updates >= 2
    /\ Observed.shape = <<2, 2>>
    /\ IsFlat(Observed, One)
    /\ IsFlat(Kernel, <<1, 4>>)
    /\ IsFlat(prev, One)
    /\ IsFlat(Estimate, One)

Filled(v) == IF IsFinite(v) THEN v ELSE Zero

WrapTerm(a, k, p, j) ==
    Mul(Filled(a.cells[<<(p[1] - j[1] + k.shape[1] \div 2) % a.shape[1],
                         (p[2] - j[2] + k.shape[2] \div 2) % a.shape[2]>>]),
        k.cells[j])

WrapSum(a, k, p) ==
    SumCells([j \in Idx(k.shape) |-> WrapTerm(a, k, p, j)], Idx(k.shape))

IsWrapConvolution(out, a, k) ==
    /\ out.shape = <<Max(a.shape[1], k.shape[1]), Max(a.shape[2], k.shape[2])>>
    /\ FitsIn(k.shape, a.shape) => \A p \in Idx(a.shape) : out.cells[p] = WrapSum(a, k, p)

C8_ConvolutionPolicy ==
    /\ blurred # None => IsWrapConvolution(blurred, prev, Kernel)
    /\ correction # None => IsWrapConvolution(correction, ratio, rot90_2(Kernel))

\* A pass on a 2x2 image with the kernel [[1, 1]]: the kernel is smaller
\* than the image and sums to 2, and the ratio holds a non-finite cell.
C8_Witness ==
    /\ pc = "done"
    /\ updates >= 2
    /\ Observed.shape = <<2, 2>>
    /\ Kernel.shape = <<1, 2>>
    /\ IsFlat(Kernel, One)
    /\ ~AllFinite(ratio)
    /\ ~IsFlat(correction, Zero)

(***************************************************************************)
(* C9.  The kernel is rotated by 180 degrees exactly once, before the      *)
(* first iteration, and the rotated kernel is the same in every iteration: *)
(* no iteration recomputes or modifies it, and every iteration's second    *)
(* convolution uses that one rotated kernel.                               *)
(***************************************************************************)
C9_RotatedOnce ==
    /\ pc = "call" => rots = 0
    /\ pc # "call" =>
          /\ rots = 1
          /\ Deref(mem, psf_rot) = rot90_2(Kernel)
    /\ Updated => correction = convolve(ratio, rot90_2(Kernel))

\* MaxIter passes with a 1x2 kernel that differs from its rotation.
C9_Witness ==
    /\ pc = "done"
    /\ updates = MaxIter
    /\ rots = 1
    /\ Kernel.shape = <<1, 2>>
    /\ rot90_2(Kernel) # Kernel
    /\ Observed.shape = <<1, 3>>

(***************************************************************************)
(* C10.  RL_Deconvolve leaves its inputs unchanged: after any number of    *)
(* iterations the observed image and the kernel hold the values they had   *)
(* at the call, the working estimate is the only array mutated, and it     *)
(* does not alias either input.                                            *)
(***************************************************************************)
C10_InputsUnchanged ==
    /\ mem["image"] = call.image
    /\ mem["psf"] = call.psf
    /\ pc # "call" => x_hat.buf \notin {"image", "psf"}
    /\ pc = "done" => result.buf \notin {"image", "psf"}

\* MaxIter passes changed the estimate of a 2x2 image that is not flat.
C10_Witness ==
    /\ pc = "done"
    /\ updates = MaxIter
    /\ Observed.shape = <<2, 2>>
    /\ ~IsFlat(Observed, Zero) /\ ~IsFlat(Observed, One)
    /\ Estimate # InitialEstimate(Observed)
    /\ Estimate # Observed

(***************************************************************************)
(* C11.  As claimed: when the observed image and the kernel have           *)
(* mismatching shapes, RL_Deconvolve fails with an error propagated from   *)
(* the convolution primitive and returns no estimate.  Stated for calls    *)
(* that run at least one iteration.  Refuted: a kernel smaller than the    *)
(* image is convolved and the call returns an estimate.                    *)
(***************************************************************************)
C11_MismatchFails ==
    (Finished /\ call.n_iter >= 1 /\ Kernel.shape # Observed.shape) => pc = "raised"

(***************************************************************************)
(* C11, amended.  When the kernel exceeds the observed image on some axis  *)
(* and at least one iteration is asked for, RL_Deconvolve fails in its     *)
(* first iteration with the shape error of the array division or of the    *)
(* in-place multiply (the convolution accepts the two shapes and returns   *)
(* an array of the larger extents) and returns no estimate.  A kernel that *)
(* does not exceed the image on either axis, of the same shape or not,     *)
(* raises no error; nor does a call of no iteration.                       *)
(***************************************************************************)
C11_LargerKernelFails ==
    /\ (Finished /\ call.n_iter >= 1) =>
          (pc = "raised" <=> ~FitsIn(Kernel.shape, Observed.shape))
    /\ pc = "raised" =>
          /\ call.n_iter >= 1
          /\ result = ValueError
          /\ updates = 0
          /\ blurred.shape = NewShape(Observed.shape, Kernel.shape)
          /\ blurred.shape # Observed.shape
    /\ (Finished /\ call.n_iter < 1) => pc = "done"

\* A 1x3 kernel on a 2x2 image: larger on one axis, smaller on the other;
\* the division raises.
C11_Witness ==
    /\ pc = "raised"
    /\ Observed.shape = <<2, 2>>
    /\ Kernel.shape = <<1, 3>>
    /\ blurred.shape = <<2, 3>>
    /\ ratio = ValueError
    /\ result = ValueError

(***************************************************************************)
(* C12.  If a convolution or division primitive fails in some iteration,   *)
(* the failure surfaces directly to the caller of RL_Deconvolve: the       *)
(* failing primitive is not retried, no later iteration runs, and no       *)
(* estimate is returned.                                                   *)
(***************************************************************************)
\* The pass last run failed: its division raised, or its multiply did.
LastPassFailed ==
    /\ blurred # None
    /\ \/ ratio = ValueError
       \/ imul(prev, correction) = ValueError

C12_FailureSurfaces ==
    /\ [](/\ LastPassFailed => pc = "raised"
          /\ pc = "raised" =>
                /\ LastPassFailed
                /\ result = ValueError
                /\ updates = i
                /\ Estimate = prev)
    /\ [][pc = "raised" => UNCHANGED vars]_vars

\* The multiply of the first of MaxIter passes raised: a 1x2 kernel on a
\* 1x1 image.
C12_Witness ==
    /\ pc = "raised"
    /\ call.n_iter = MaxIter
    /\ i = 0
    /\ Observed.shape = <<1, 1>>
    /\ Kernel.shape = <<1, 2>>
    /\ ratio # ValueError
    /\ correction.shape = <<1, 2>>
    /\ result = ValueError

(***************************************************************************)
(* C13.  As claimed: running N iterations and then feeding the output back *)
(* in as `observed`, with the same kernel, for 0 further iterations        *)
(* returns the same array unchanged.  Refuted: the second call returns its *)
(* initial estimate, 0.5 in every cell, not the array it was given.        *)
(***************************************************************************)
C13_FeedBackReturnsSame ==
    (fed # None /\ pc = "done") => Returned = fed

(***************************************************************************)
(* C13, amended.  Running N iterations and then feeding the output back in *)
(* as `observed`, with the same kernel, for 0 further iterations returns   *)
(* the initial estimate: an array of the output's shape whose every cell   *)
(* is 0.5, whatever the first run returned.  The array fed in is left      *)
(* unchanged and no update is made.                                        *)
(***************************************************************************)
C13_FeedBackReturnsHalf ==
    fed # None =>
        /\ pc # "raised"
        /\ updates = 0
        /\ mem["image"] = fed
        /\ pc = "done" =>
              /\ Returned.shape = fed.shape
              /\ IsFlat(Returned, Half)

\* The second call returned; the 2x2 array fed in came out of a first call
\* with updates, and holds two different cells, neither of them 0.5.
C13_Witness ==
    /\ fed # None
    /\ pc = "done"
    /\ fed.shape = <<2, 2>>
    /\ \A p \in Idx(fed.shape) : fed.cells[p] # Half
    /\ ~IsFlat(fed, FlatValue(fed))
    /\ IsFlat(Returned, Half)

(***************************************************************************)
(* C15.  When the iteration count is omitted, RL_Deconvolve performs       *)
(* exactly 30 iterations: its result equals that of the same call with     *)
(* iterations = 30.                                                        *)
(***************************************************************************)
C15_DefaultIsThirty ==
    ~call.given =>
        /\ updates <= 30
        /\ pc = "done" =>
              /\ updates = 30
              /\ Returned = RL_Deconvolve(Observed, Kernel, 30)
        /\ pc = "raised" => RL_Deconvolve(Observed, Kernel, 30) = ValueError

\* A call without n_iter on a 1x3 image returned, after 30 passes, an array
\* that is not flat.
C15_Witness ==
    /\ pc = "done"
    /\ ~call.given
    /\ updates = 30
    /\ Observed.shape = <<1, 3>>
    /\ ~IsFlat(Returned, FlatValue(Returned))

(***************************************************************************)
(* C16.  For every m x n matrix A, rank(A) <= min(m, n); and for           *)
(* A = [[1,2,1],[-2,-3,1],[3,5,0]] the rank is 2, because the first two    *)
(* rows are linearly independent and the third row equals the difference   *)
(* of the first two.                                                       *)
(***************************************************************************)
RankRan == nb.cell = "rank" /\ nb.ran

\* Two rows are linearly independent: some 2x2 minor of them is not zero.
Independent(u, v) ==
    \E j \in DOMAIN u, k \in DOMAIN u : u[j] * v[k] - u[k] * v[j] # 0

C16_RankBound ==
    RankRan =>
        /\ nb.rank <= Len(nb.in)
        /\ nb.rank <= Len(nb.in[1])
        /\ nb.holds
        /\ nb.in = <<<<1, 2, 1>>, <<0 - 2, 0 - 3, 1>>, <<3, 5, 0>>>> =>
              /\ nb.rank = 2
              /\ Independent(nb.in[1], nb.in[2])
              /\ \A j \in 1 .. 3 : nb.in[3][j] = nb.in[1][j] - nb.in[2][j]

\* The rank cell has run on the matrix written in it.
C16_Witness ==
    /\ RankRan
    /\ nb.in = ExampleMatrix
    /\ nb.rank = 2
    /\ nb.holds

(***************************************************************************)
(* C17.  The cardinality of a set built from a list of elements is the     *)
(* number of distinct elements, not the length of the list: the set built  *)
(* from 1, 1, 2, 3, 5 is {1, 2, 3, 5} and has cardinality 4.               *)
(***************************************************************************)
CardRan == nb.cell = "card" /\ nb.ran

\* The number of places of a list that hold an element for the first time.
DistinctCount(l) ==
    Cardinality({k \in DOMAIN l : \A j \in 1 .. k - 1 : l[j] # l[k]})

C17_CardinalityIsDistinctCount ==
    CardRan =>
        /\ nb.card = DistinctCount(nb.in)
        /\ \A v \in Elements : v \in nb.A <=> \E k \in DOMAIN nb.in : nb.in[k] = v
        /\ nb.in = <<1, 1, 2, 3, 5>> =>
              /\ nb.A = {1, 2, 3, 5}
              /\ nb.card = 4
              /\ nb.card # Len(nb.in)

\* The cardinality cell has run on the list written in it.
C17_Witness ==
    /\ CardRan
    /\ nb.in = ExampleList
    /\ nb.A = {1, 2, 3, 5}
    /\ nb.card = 4

(***************************************************************************)
(* C18.  The iterations are strictly sequential: the estimate after pass   *)
(* k+1 is a function only of the complete estimate after pass k and of the *)
(* unchanged observed image and kernel; within a pass the whole correction *)
(* array is computed from the estimate as it was before the pass, and each *)
(* cell of the new estimate is the old cell times its correction.          *)
(***************************************************************************)
C18_StrictlySequential ==
    [][updates' = updates + 1 =>
          /\ updates = i
          /\ i' = i + 1
          /\ mem'["image"] = mem["image"]
          /\ mem'["psf"] = mem["psf"]
          /\ prev' = Estimate
          /\ blurred' = convolve(Estimate, mem["psf"])
          /\ ratio' = true_divide(mem["image"], convolve(Estimate, mem["psf"]))
          /\ correction' = convolve(ratio', rot90_2(mem["psf"]))
          /\ Estimate'.shape = Estimate.shape
          /\ \A p \in Idx(Estimate.shape) :
                Estimate'.cells[p] = Mul(Estimate.cells[p], BGet(correction', p))]_vars

\* A second pass on a 2x2 image whose correction is not flat and changes the
\* estimate in a cell other than the first.
C18_Witness ==
    /\ Updated
    /\ updates = MaxIter
    /\ Observed.shape = <<2, 2>>
    /\ ~IsFlat(correction, FlatValue(correction))
    /\ ~IsFlat(prev, FlatValue(prev))
    /\ Estimate.cells[<<1, 1>>] # prev.cells[<<1, 1>>]

(***************************************************************************)
(* C19.  Flux conservation: after every pass (the first included) in which *)
(* no division by zero occurs, the sum of all cells of the estimate equals *)
(* the sum of all cells of the observed image, whether or not the kernel   *)
(* is normalised.                                                          *)
(***************************************************************************)
C19_FluxConserved ==
    (Updated /\ ~HasZero(blurred)) => Total(Estimate) = Total(Observed)

(***************************************************************************)
(* C20.  No clamp is applied, yet for an observed image and a kernel whose *)
(* cells are all non-negative, every cell of the estimate is non-negative  *)
(* at initialisation and after every pass in which the blurred estimate    *)
(* has no zero cell.                                                       *)
(***************************************************************************)
NonNegative(a) ==
    \A p \in Idx(a.shape) : IsFinite(a.cells[p]) /\ Sign(a.cells[p][1]) * Sign(a.cells[p][2]) >= 0

C20_EstimateNonNegative ==
    (/\ pc \in {"loop", "done"}
     /\ NonNegative(Observed)
     /\ NonNegative(Kernel)
     /\ updates = 0 \/ ~HasZero(blurred))
        => NonNegative(Estimate)

\* A last pass without a zero in the blurred estimate that leaves a zero cell
\* and a positive cell in the estimate.
C20_Witness ==
    /\ Updated
    /\ updates = MaxIter
    /\ NonNegative(Observed)
    /\ NonNegative(Kernel)
    /\ ~HasZero(blurred)
    /\ HasZero(Estimate)
    /\ \E p \in Idx(Estimate.shape) : Estimate.cells[p][1] > 0

(***************************************************************************)
(* C21.  RL_Deconvolve is deterministic and stateless across calls: two    *)
(* calls with equal observed image, kernel and iteration count give the    *)
(* caller the same, whatever call was made in between, and every call      *)
(* starts from a fresh estimate of 0.5 in every cell.                      *)
(***************************************************************************)
C21_SameCallSameResult ==
    /\ (pc = "loop" /\ updates = 0) =>
          (Estimate.shape = mem["image"].shape /\ IsFlat(Estimate, Half))
    /\ \A k \in DOMAIN log :
          (Finished /\ log[k].call = call) => Outcome = log[k].out

\* The first call and its repetition returned an array that is not flat, after
\* a call in between that completed passes on an image of the same shape and
\* returned something else.
C21_Witness ==
    /\ pc = "done"
    /\ Len(log) = 2
    /\ log[1].call = call
    /\ call.n_iter = MaxIter
    /\ log[2].call.n_iter = MaxIter
    /\ log[2].call.image.shape = call.image.shape
    /\ log[2].out # ValueError
    /\ log[2].out # log[1].out
    /\ ~IsFlat(Returned, FlatValue(Returned))
    /\ Returned = log[1].out

(***************************************************************************)
(* C22.  RL_Deconvolve commutes with circular shifts of the observed       *)
(* image: for every shift s and iteration count n, the call on the image   *)
(* shifted by s gives what the call on the image gives, shifted by s.      *)
(***************************************************************************)
\* np.roll(a, s, axis=(0, 1)); an exception stays the exception.
Roll(a, s) ==
    IF a = ValueError THEN ValueError
    ELSE Array(a.shape,
               [p \in Idx(a.shape) |->
                   a.cells[<<(p[1] - s[1]) % a.shape[1], (p[2] - s[2]) % a.shape[2]>>]])

C22_CommutesWithShifts ==
    Finished =>
        \A s \in Idx(Observed.shape) :
            RL_Deconvolve(Roll(Observed, s), Kernel, call.n_iter) = Roll(Outcome, s)

\* Two passes on a 2x2 image with a kernel that is not 1x1, whose result is
\* not flat and changes under the shift by one row.
C22_Witness ==
    /\ pc = "done"
    /\ updates = MaxIter
    /\ Observed.shape = <<2, 2>>
    /\ Kernel.shape # <<1, 1>>
    /\ Roll(Observed, <<1, 0>>) # Observed
    /\ Roll(Returned, <<1, 0>>) # Returned
    /\ RL_Deconvolve(Roll(Observed, <<1, 0>>), Kernel, call.n_iter) = Roll(Returned, <<1, 0>>)

(***************************************************************************)
(* C23.  For every iteration count n >= 1 and scale factor a > 0,          *)
(* RL_Deconvolve(a * observed, kernel, n) = a * RL_Deconvolve(observed,    *)
(* kernel, n); for n = 0 the result is the 0.5 array, independent of a.    *)
(***************************************************************************)
Scales == {<<2, 1>>, <<3, 1>>, <<1, 2>>, <<2, 3>>}

\* a * array; an exception stays the exception.
Scale(c, a) ==
    IF a = ValueError THEN ValueError
    ELSE Array(a.shape, [p \in Idx(a.shape) |-> Mul(c, a.cells[p])])

\* The call of the state, made on the image scaled by c.
OnScaled(c) == RL_Deconvolve(Scale(c, Observed), Kernel, call.n_iter)

C23_ScalesWithImage ==
    Finished =>
        \A c \in Scales :
            \A scaled \in {OnScaled(c)} :
                ~HasHuge(scaled) =>
                    /\ call.n_iter >= 1 => scaled = Scale(c, Outcome)
                    /\ call.n_iter = 0 =>
                          (scaled = Const(Observed.shape, Half) /\ Outcome = scaled)

\* Two passes whose result is not flat, and the same call on three times
\* the image, which returns three times the result.
C23_Witness ==
    /\ pc = "done"
    /\ updates = MaxIter
    /\ ~IsFlat(Returned, FlatValue(Returned))
    /\ ~IsFlat(prev, FlatValue(prev))
    /\ ~HasHuge(OnScaled(<<3, 1>>))
    /\ OnScaled(<<3, 1>>) = Scale(<<3, 1>>, Returned)
    /\ OnScaled(<<3, 1>>) # Returned

(***************************************************************************)
(* C24.  The iteration count is not validated: for a negative count        *)
(* RL_Deconvolve performs no update, calls no convolution, raises no error *)
(* and returns the uniform 0.5 array, exactly as for a count of 0.         *)
(***************************************************************************)
C24_NegativeCountIsZero ==
    call.n_iter < 0 =>
        /\ updates = 0
        /\ blurred = None
        /\ ratio = None
        /\ correction = None
        /\ pc # "raised"
        /\ pc = "loop" => ~ENABLED Iterate /\ ~ENABLED Raise
        /\ pc = "done" =>
              /\ Returned = Const(Observed.shape, Half)
              /\ Returned = RL_Deconvolve(Observed, Kernel, 0)

\* A call with a negative count has returned, on an image that is not flat
\* and a kernel wider than the image, with which a pass would raise.
C24_Witness ==
    /\ pc = "done"
    /\ call.n_iter = MinIter
    /\ call.n_iter < 0
    /\ Observed.shape = <<2, 2>>
    /\ ~IsFlat(Observed, FlatValue(Observed))
    /\ Kernel.shape = <<1, 3>>
    /\ RL_Deconvolve(Observed, Kernel, 1) = ValueError
    /\ IsFlat(Returned, Half)

====
